---- MODULE Spec2Model ----
(***************************************************************************)
(* Model of src/src/blockchain.js: the in-memory ledger (class Blockchain) *)
(* with its linked append (_addBlock), the chain validation walk           *)
(* (validateChain), the ownership protocol (submitStar) and the owner      *)
(* query (getStarsByWalletAddress).                                        *)
(*                                                                         *)
(* JavaScript runs each promise executor synchronously up to its first     *)
(* `await`; every action below is one such run-to-suspension segment.      *)
(* Callers' operations are numbered in the order they are started; any     *)
(* pending operation may be the next one to resume.                        *)
(***************************************************************************)
EXTENDS Integers, Sequences, FiniteSets, TLC

VARIABLES chain, height, now, ops, tamperLog

vars == <<chain, height, now, ops, tamperLog>>

(* ------------------------------ bounds --------------------------------- *)
MaxOps == 3          \* number of operations callers start
MaxTicks == 1        \* seconds the wall clock may advance
MaxTamper == 1       \* outside modifications of stored blocks
MaxErrors == 4       \* length of error_array at which a validation walk is cut
T0 == 1000           \* wall clock (seconds) when the ledger is constructed

Procs == 1..MaxOps
AllProcs == 0..MaxOps            \* 0 is the constructor's initializeChain()
Addresses == {"a1", "a2"}
Stars == {"star1"}
Ages == {0, 300, 301}            \* now - (timestamp embedded in the message)
PlainData == [data |-> "plain"]  \* body of a direct append by a caller

(* ------------------------ external collaborators ----------------------- *)
NullHash == <<>>
BogusHash == <<"bogus">>
NaN == [nan |-> TRUE, n |-> 0]
Num(n) == <<"num", n>>           \* a field made of decimal digits
Txt(s) == <<"txt", s>>           \* a field that does not begin with a digit
NumTxt(n, s) == <<"numtxt", n, s>>  \* decimal digits followed by other text

\* crypto-js SHA256(...).toString(): deterministic and collision free
SHA256(s) == <<"sha256", s>>

\* JSON.stringify(block): every own field of the block, in declaration order
Stringify(b) == <<b.hash, b.height, b.body, b.time, b.previousBlockHash>>

\* block.js: the body is stored encoded and decoded by getBData
Encode(data) == <<"hex", data>>
Decode(body) == body[2]

GenesisData == [data |-> "Genesis Block"]
TamperedData == [data |-> "tampered"]

\* new BlockClass.Block(data): an unattached block
NewBlock(data) ==
    [hash |-> NullHash, height |-> 0, body |-> Encode(data), time |-> 0,
     previousBlockHash |-> NullHash]

\* block.validate(): recompute the hash of the block without its hash field
\* and compare it with the stored hash
BlockValidate(b) == SHA256(Stringify([b EXCEPT !.hash = NullHash])) = b.hash

\* block.getBData(): the decoded body; fails for the genesis sentinel body
GetBData(b) ==
    IF Decode(b.body) = GenesisData
    THEN [ok |-> FALSE, data |-> GenesisData]
    ELSE [ok |-> TRUE, data |-> Decode(b.body)]

\* bitcoinMessage.verify(message, address, signature): a signature is
\* modelled by the pair (signer, signed message)
Sign(signer, message) == <<signer, message>>
Verify(message, address, signature) == signature = Sign(address, message)

(* ------------------------------ helpers -------------------------------- *)
\* parseInt(new Date().getTime().toString().slice(0,-3)): whole seconds
CurrentTime == now

\* message.split(':')[1] and parseInt of it; a message is its list of fields.
\* parseInt reads the leading decimal digits and ignores what follows them.
ParseInt(field) ==
    IF field[1] \in {"num", "numtxt"} THEN [nan |-> FALSE, n |-> field[2]]
    ELSE NaN

\* the message has a second field and that field is a decimal number
WellFormed(message) == Len(message) >= 2 /\ message[2][1] = "num"
MessageTime(message) ==
    IF Len(message) >= 2 THEN ParseInt(message[2]) ELSE NaN

\* mutant: the elapsed minutes truncated to whole minutes before the test
WithinWindow_Truncated(currentTime, message_time) ==
    IF message_time.nan THEN FALSE
    ELSE ((currentTime - message_time.n) \div 60) <= 5

\* mutant: the test is written as "not more than 5", which NaN passes
WithinWindow_NaNPasses(currentTime, message_time) ==
    IF message_time.nan THEN TRUE
    ELSE (currentTime - message_time.n) <= 5 * 60

\* mutant: the window is open below five minutes only
WithinWindow_Strict(currentTime, message_time) ==
    IF message_time.nan THEN FALSE
    ELSE (currentTime - message_time.n) < 5 * 60

\* (currentTime - message_time)/(60.) <= 5. : the quotient is a real number,
\* so it is at most 5 exactly when the difference is at most 5 * 60; every
\* comparison with NaN is false
WithinWindow(currentTime, message_time) ==
    IF message_time.nan THEN FALSE
    ELSE (currentTime - message_time.n) <= 5 * 60

\* currentTime - message_time, NaN when the timestamp did not parse
Elapsed(currentTime, message_time) ==
    IF message_time.nan THEN NaN
    ELSE [nan |-> FALSE, n |-> currentTime - message_time.n]

\* `${address}:${seconds}:starRegistry`
ChallengeMessage(address, seconds) ==
    <<Txt(address), Num(seconds), Txt("starRegistry")>>

\* block_data.owner; undefined when the decoded body has no such field
Owner(data) == IF "owner" \in DOMAIN data THEN data.owner ELSE "undefined"

\* self.chain.filter(p => p.hash === hash)[0]; 0 stands for null
RECURSIVE FirstWithHash(_, _, _)
FirstWithHash(ch, hash, i) ==
    IF i > Len(ch) THEN 0
    ELSE IF ch[i].hash = hash THEN i
    ELSE FirstWithHash(ch, hash, i + 1)

getBlockByHash(ch, hash) == FirstWithHash(ch, hash, 1)

\* mutant: the scan compares with the position in the chain counted from 1
FirstWithHeight_OneBased(ch, k, i) ==
    IF k \in 1..Len(ch) THEN k ELSE 0

\* self.chain.filter(p => p.height === height)[0]; 0 stands for null
RECURSIVE FirstWithHeight(_, _, _)
FirstWithHeight(ch, k, i) ==
    IF i > Len(ch) THEN 0
    ELSE IF ch[i].height = k THEN i
    ELSE FirstWithHeight(ch, k, i + 1)

getBlockByHeight(ch, k) == FirstWithHeight(ch, k, 1)

\* mutant: the new block is linked to the first block instead of the tip
LinkedBlock_StaleTip(ch, h, block, t) ==
    LET b1 == IF h >= 0
              THEN [block EXCEPT !.previousBlockHash = ch[1].hash]
              ELSE block
        b2 == [b1 EXCEPT !.height = h + 1, !.time = t]
    IN [b2 EXCEPT !.hash = SHA256(Stringify(b2))]

\* mutant: the hash is computed before the timestamp is assigned
LinkedBlock_HashBeforeTime(ch, h, block, t) ==
    LET b1 == IF h >= 0
              THEN [block EXCEPT !.previousBlockHash = ch[h + 1].hash]
              ELSE block
        b2 == [b1 EXCEPT !.height = h + 1]
    IN [b2 EXCEPT !.hash = SHA256(Stringify(b2)), !.time = t]

\* mutant: the new block gets the height of the tip
LinkedBlock_SameHeight(ch, h, block, t) ==
    LET b1 == IF h >= 0
              THEN [block EXCEPT !.previousBlockHash = ch[h + 1].hash]
              ELSE block
        b2 == [b1 EXCEPT !.height = IF h >= 0 THEN h ELSE 0, !.time = t]
    IN [b2 EXCEPT !.hash = SHA256(Stringify(b2))]

\* lines 73-84 of _addBlock: link, height, time and hash of the new block
LinkedBlock(ch, h, block, t) ==
    LET b1 == IF h >= 0
              THEN [block EXCEPT !.previousBlockHash = ch[h + 1].hash]
              ELSE block
        b2 == [b1 EXCEPT !.height = h + 1, !.time = t]
    IN [b2 EXCEPT !.hash = SHA256(Stringify(b2))]

\* mutant: the height counter is left as it was once the chain is seeded
NewHeight_Stale(h) == IF h >= 0 THEN h ELSE 0

\* line 87: the height counter after the push
NewHeight(h) == h + 1

(* --------------------------- operation records ------------------------- *)
NoValue == [tag |-> "none"]
BlockValue(i) == [tag |-> "block", idx |-> i]
TextValue(s) == [tag |-> "text", text |-> s]
ListValue(l) == [tag |-> "list", list |-> l]
NullValue == [tag |-> "null"]
IntValue(n) == [tag |-> "int", n |-> n]
MessageValue(m) == [tag |-> "message", message |-> m]
\* if (block) resolve(block) else resolve(null), for the index found or 0
FoundValue(i) == IF i # 0 THEN BlockValue(i) ELSE NullValue
InvalidError(log) == [tag |-> "Error", message |-> "invalid", error_log |-> log]

SelfHashError(i) == [kind |-> "block", idx |-> i]
LinkageError ==
    [kind |-> "previous hash does not equal hash of previous block", idx |-> 0]

IdleOp ==
    [kind |-> "none", pc |-> "idle", address |-> "", elapsed |-> NaN,
     verified |-> FALSE, malformed |-> FALSE,
     latest |-> 0, snapshot |-> 0, found |-> 0, r |-> FALSE, errs |-> <<>>,
     i |-> 0, bdata |-> [ok |-> FALSE, data |-> GenesisData],
     star_array |-> <<>>, error_count |-> 0,
     abOutcome |-> "none", abValue |-> NoValue,
     outcome |-> "none", value |-> NoValue,
     blk |-> 0, h0 |-> -1, tip0 |-> NullHash, tampers0 |-> 0, len0 |-> 0,
     visited |-> <<>>, keyHash |-> NullHash, keyHeight |-> -1]

\* mutant: a failed self-validation is not recorded
PushIfInvalid_Never(errs, block_valid, latest) == errs

\* mutant: the genesis block is never recorded
PushIfInvalid_SkipGenesis(errs, block_valid, latest) ==
    IF ~block_valid /\ latest > 1 THEN Append(errs, SelfHashError(latest))
    ELSE errs

\* lines 251-253 and 262-264: if (!block_valid) error_array.push(latest_block)
PushIfInvalid(errs, block_valid, latest) ==
    IF ~block_valid THEN Append(errs, SelfHashError(latest)) ELSE errs

\* mutant: every decoded body is returned, whoever owns it
StarsPush_AnyOwner(star_array, bdata, address) ==
    IF bdata.ok THEN Append(star_array, bdata.data) ELSE star_array

\* lines 221-224: a decoded body is kept when its owner is the address
StarsPush(star_array, bdata, address) ==
    IF bdata.ok /\ Owner(bdata.data) = address
    THEN Append(star_array, bdata.data)
    ELSE star_array

\* mutant: the answer of the verifier is ignored
SubmitDecision_NoVerify(within, message_verified) ==
    IF within THEN "append" ELSE "message timeout > 5min"

\* mutant: the test of the window is inverted
SubmitDecision_AppendExpired(within, message_verified) ==
    IF ~within
    THEN IF message_verified THEN "append" ELSE "message not verified"
    ELSE "message timeout > 5min"

\* lines 144-162: the nested tests of submitStar
SubmitDecision(within, message_verified) ==
    IF within
    THEN IF message_verified THEN "append" ELSE "message not verified"
    ELSE "message timeout > 5min"

\* validateChain() up to its first await, on the chain ch
ValidateCall(op, ch, nTampers) ==
    IF Len(ch) >= 1
    THEN [op EXCEPT !.latest = Len(ch),
                    !.r = BlockValidate(ch[Len(ch)]),
                    !.visited = <<Len(ch)>>,
                    !.errs = <<>>,
                    !.tampers0 = nTampers,
                    !.len0 = Len(ch),
                    !.pc = IF ch[Len(ch)].height > 0
                           THEN "awaitValidate" ELSE "awaitGenesis"]
    ELSE \* an empty chain: resolve([]) once the caller's await resumes
         [op EXCEPT !.latest = 0, !.r = TRUE, !.errs = <<>>,
                    !.tampers0 = nTampers, !.len0 = 0, !.pc = "awaitGenesis"]

\* mutant: the new block is stored in the place of the tip
AddBlockCall_Overwrite(op, ch, h, block, t, nTampers) ==
    LET nb == LinkedBlock(ch, h, block, t)
        ch2 == IF h >= 0 THEN [ch EXCEPT ![h + 1] = nb] ELSE Append(ch, nb)
    IN [chain |-> ch2,
        height |-> NewHeight(h),
        op |-> ValidateCall([op EXCEPT !.blk = Len(ch2), !.h0 = h,
                                       !.abOutcome = "pending",
                                       !.outcome = "pending"],
                            ch2, nTampers)]

\* mutant: the block is pushed before its hash is assigned
AddBlockCall_PushBeforeHash(op, ch, h, block, t, nTampers) ==
    LET nb == [LinkedBlock(ch, h, block, t) EXCEPT !.hash = NullHash]
        ch2 == Append(ch, nb)
    IN [chain |-> ch2,
        height |-> NewHeight(h),
        op |-> ValidateCall([op EXCEPT !.blk = Len(ch2), !.h0 = h,
                                       !.abOutcome = "pending",
                                       !.outcome = "pending"],
                            ch2, nTampers)]

\* _addBlock(block) up to its first await: lines 73-89
AddBlockCall(op, ch, h, block, t, nTampers) ==
    LET nb == LinkedBlock(ch, h, block, t)
        ch2 == Append(ch, nb)
    IN [chain |-> ch2,
        height |-> NewHeight(h),
        op |-> ValidateCall([op EXCEPT !.blk = Len(ch2), !.h0 = h,
                                       !.tip0 = IF h >= 0 THEN ch[h + 1].hash
                                                ELSE NullHash,
                                       !.abOutcome = "pending",
                                       !.outcome = "pending"],
                            ch2, nTampers)]

(* -------------------------------- Init --------------------------------- *)
\* mutant: the constructor leaves the chain empty
Constructed_Lazy ==
    [chain |-> <<>>, height |-> -1,
     op |-> [IdleOp EXCEPT !.kind = "init", !.pc = "done"]]

\* constructor(): chain = [], height = -1, then initializeChain() runs
\* _addBlock(genesis) up to the first await of validateChain()
Constructed ==
    AddBlockCall([IdleOp EXCEPT !.kind = "init"], <<>>, -1,
                 NewBlock(GenesisData), T0, 0)

Init ==
    /\ chain = Constructed.chain
    /\ height = Constructed.height
    /\ now = T0
    /\ ops = [p \in AllProcs |-> IF p = 0 THEN Constructed.op ELSE IdleOp]
    /\ tamperLog = <<>>

\* operations are numbered in the order callers start them
CanStart(p) ==
    /\ p \in Procs
    /\ ops[p].pc = "idle"
    /\ p > 1 => ops[p - 1].pc # "idle"

(* ------------------------------- actions ------------------------------- *)
\* a caller invokes _addBlock(new Block(data)) directly
Append_(p, data) ==
    /\ CanStart(p)
    /\ LET res == AddBlockCall([ops[p] EXCEPT !.kind = "append"], chain,
                               height, NewBlock(data), CurrentTime,
                               Len(tamperLog))
       IN /\ chain' = res.chain
          /\ height' = res.height
          /\ ops' = [ops EXCEPT ![p] = res.op]
    /\ UNCHANGED <<now, tamperLog>>

\* submitStar(address, message, signature, star) up to its first await.
\* The op record keeps, for the properties only, the seconds elapsed since the
\* embedded timestamp and what the verifier answers for these arguments.
submitStar(p, address, message, signature, star) ==
    /\ CanStart(p)
    /\ LET message_time == MessageTime(message)
           currentTime == CurrentTime
           message_verified == Verify(message, address, signature)
           op0 == [ops[p] EXCEPT !.kind = "redeem",
                                 !.elapsed = Elapsed(currentTime, message_time),
                                 !.verified = message_verified,
                                 !.malformed = ~WellFormed(message),
                                 !.outcome = "pending"]
           data == [owner |-> address, signature |-> signature,
                    message |-> message, star |-> star]
           res == AddBlockCall([op0 EXCEPT !.address = address], chain, height,
                               NewBlock(data), CurrentTime, Len(tamperLog))
           decision == SubmitDecision(WithinWindow(currentTime, message_time),
                                      message_verified)
       IN IF decision = "append"
          THEN /\ chain' = res.chain
               /\ height' = res.height
               /\ ops' = [ops EXCEPT ![p] = res.op]
          ELSE /\ ops' = [ops EXCEPT ![p] =
                            [op0 EXCEPT !.outcome = "rejected",
                                        !.value = TextValue(decision),
                                        !.pc = "done"]]
               /\ UNCHANGED <<chain, height>>
    /\ UNCHANGED <<now, tamperLog>>

\* a caller invokes validateChain()
validateChain(p) ==
    /\ CanStart(p)
    /\ ops' = [ops EXCEPT ![p] =
                ValidateCall([ops[p] EXCEPT !.kind = "validate",
                                            !.outcome = "pending"],
                             chain, Len(tamperLog))]
    /\ UNCHANGED <<chain, height, now, tamperLog>>

\* validateChain resumes after `await latest_block.validate()` in the loop
\* (lines 251-255) and calls getBlockByHash
ValidateLoopResume(p) ==
    /\ ops[p].pc = "awaitValidate"
    /\ Len(ops[p].errs) < MaxErrors
    /\ ops' = [ops EXCEPT ![p] =
                [@ EXCEPT !.errs = PushIfInvalid(@, ops[p].r, ops[p].latest),
                          !.snapshot = ops[p].latest,
                          !.found = getBlockByHash(chain,
                                      chain[ops[p].latest].previousBlockHash),
                          !.pc = "awaitLookup"]]
    /\ UNCHANGED <<chain, height, now, tamperLog>>

\* validateChain resumes after `await self.getBlockByHash(...)` (lines
\* 255-259, then the loop test and the next validate() call).  Reading
\* `.hash` of null throws inside the async executor: the promise of
\* validateChain is then never settled.
ValidateLookupResume(p) ==
    /\ ops[p].pc = "awaitLookup"
    /\ LET op == ops[p]
           f == op.found
       IN ops' = [ops EXCEPT ![p] =
                  IF f = 0
                  THEN [op EXCEPT !.latest = 0, !.pc = "hung"]
                  ELSE [op EXCEPT
                          !.latest = f,
                          !.errs = IF chain[op.snapshot].previousBlockHash
                                      # chain[f].hash
                                   THEN Append(@, LinkageError) ELSE @,
                          !.r = BlockValidate(chain[f]),
                          !.visited = Append(@, f),
                          !.pc = IF chain[f].height > 0
                                 THEN "awaitValidate" ELSE "awaitGenesis"]]
    /\ UNCHANGED <<chain, height, now, tamperLog>>

\* mutant: the Error is thrown without the error list
AddBlockResume_NoLog(op) ==
    IF Len(op.errs) = 0
    THEN [op EXCEPT !.abOutcome = "resolved", !.abValue = BlockValue(op.blk)]
    ELSE [op EXCEPT !.abOutcome = "rejected", !.abValue = InvalidError(<<>>)]

\* _addBlock after `await self.validateChain()` (lines 89-99): resolve with
\* the block, or reject with an Error carrying error_log
AddBlockResume(op) ==
    IF Len(op.errs) = 0
    THEN [op EXCEPT !.abOutcome = "resolved", !.abValue = BlockValue(op.blk)]
    ELSE [op EXCEPT !.abOutcome = "rejected", !.abValue = InvalidError(op.errs)]

\* initializeChain (line 43) and a direct caller of _addBlock see the
\* settlement of _addBlock's promise
AppendSettled(op) ==
    [op EXCEPT !.outcome = op.abOutcome, !.value = op.abValue, !.pc = "done"]

\* submitStar after `await self._addBlock(new_block)` (line 155).  A
\* rejection is thrown inside the async executor, where nothing catches it:
\* neither resolve nor reject of submitStar's promise is ever called.
SubmitStarResume(op) ==
    IF op.abOutcome = "resolved"
    THEN [op EXCEPT !.outcome = "resolved", !.value = op.abValue, !.pc = "done"]
    ELSE [op EXCEPT !.pc = "hung"]

\* validateChain resumes after the genesis `await latest_block.validate()`
\* (lines 261-267) and resolves with error_array.  The continuations of
\* _addBlock and submitStar that wait for it only settle promises, they read
\* nothing of the ledger: they are part of this step.
ValidateGenesisResume(p) ==
    /\ ops[p].pc = "awaitGenesis"
    /\ LET op == ops[p]
           errs == PushIfInvalid(op.errs, op.r, op.latest)
           op1 == [op EXCEPT !.errs = errs]
       IN ops' = [ops EXCEPT ![p] =
                  CASE op.kind = "validate" ->
                         [op1 EXCEPT !.outcome = "resolved",
                                     !.value = ListValue(errs), !.pc = "done"]
                    [] op.kind = "redeem" -> SubmitStarResume(AddBlockResume(op1))
                    [] OTHER -> AppendSettled(AddBlockResume(op1))]
    /\ UNCHANGED <<chain, height, now, tamperLog>>

\* getStarsByWalletAddress(address) up to its first await
getStarsByWalletAddress(p, address) ==
    /\ CanStart(p)
    /\ LET op0 == [ops[p] EXCEPT !.kind = "stars", !.address = address,
                                 !.star_array = <<>>, !.error_count = 0,
                                 !.len0 = Len(chain),
                                 !.outcome = "pending"]
       IN ops' = [ops EXCEPT ![p] =
                  IF Len(chain) >= 1
                  THEN [op0 EXCEPT !.i = 1, !.bdata = GetBData(chain[1]),
                                   !.pc = "awaitBData"]
                  ELSE [op0 EXCEPT !.outcome = "resolved",
                                   !.value = ListValue(<<>>), !.pc = "done"]]
    /\ UNCHANGED <<chain, height, now, tamperLog>>

\* getStarsByWalletAddress resumes after `await block.getBData()` (lines
\* 221-231); the array iterator reads the live chain
StarsResume(p) ==
    /\ ops[p].pc = "awaitBData"
    /\ LET op == ops[p]
           stars == StarsPush(op.star_array, op.bdata, op.address)
           nerr == IF op.bdata.ok THEN op.error_count ELSE op.error_count + 1
           j == op.i + 1
       IN ops' = [ops EXCEPT ![p] =
                  IF j <= Len(chain)
                  THEN [op EXCEPT !.star_array = stars, !.error_count = nerr,
                                  !.i = j, !.bdata = GetBData(chain[j])]
                  ELSE [op EXCEPT !.star_array = stars, !.error_count = nerr,
                                  !.i = j, !.outcome = "resolved",
                                  !.value = ListValue(stars), !.pc = "done"]]
    /\ UNCHANGED <<chain, height, now, tamperLog>>

\* getChainHeight(): resolve(this.height)
getChainHeight(p) ==
    /\ CanStart(p)
    /\ ops' = [ops EXCEPT ![p] =
                [@ EXCEPT !.kind = "height", !.len0 = Len(chain),
                          !.outcome = "resolved", !.value = IntValue(height),
                          !.pc = "done"]]
    /\ UNCHANGED <<chain, height, now, tamperLog>>

\* getBlockByHash(hash) called by a caller: the executor has no await
GetBlockByHashCall(p, hash) ==
    /\ CanStart(p)
    /\ ops' = [ops EXCEPT ![p] =
                [@ EXCEPT !.kind = "findByHash", !.keyHash = hash,
                          !.len0 = Len(chain), !.h0 = height,
                          !.outcome = "resolved",
                          !.value = FoundValue(getBlockByHash(chain, hash)),
                          !.pc = "done"]]
    /\ UNCHANGED <<chain, height, now, tamperLog>>

\* getBlockByHeight(height) called by a caller: the executor has no await
GetBlockByHeightCall(p, k) ==
    /\ CanStart(p)
    /\ ops' = [ops EXCEPT ![p] =
                [@ EXCEPT !.kind = "findByHeight", !.keyHeight = k,
                          !.len0 = Len(chain), !.h0 = height,
                          !.outcome = "resolved",
                          !.value = FoundValue(getBlockByHeight(chain, k)),
                          !.pc = "done"]]
    /\ UNCHANGED <<chain, height, now, tamperLog>>

\* requestMessageOwnershipVerification(address): the challenge for now
requestMessageOwnershipVerification(p, address) ==
    /\ CanStart(p)
    /\ ops' = [ops EXCEPT ![p] =
                [@ EXCEPT !.kind = "issue", !.address = address,
                          !.outcome = "resolved",
                          !.value = MessageValue(
                                      ChallengeMessage(address, CurrentTime)),
                          !.pc = "done"]]
    /\ UNCHANGED <<chain, height, now, tamperLog>>

\* the wall clock advances by one second
Tick ==
    /\ now < T0 + MaxTicks
    /\ now' = now + 1
    /\ UNCHANGED <<chain, height, ops, tamperLog>>

\* code outside the ledger overwrites the body of a stored block
TamperBody(k) ==
    /\ Len(tamperLog) < MaxTamper
    /\ k \in 1..Len(chain)
    /\ chain[k].body # Encode(TamperedData)
    /\ chain' = [chain EXCEPT ![k].body = Encode(TamperedData)]
    /\ tamperLog' = Append(tamperLog, [idx |-> k, field |-> "body"])
    /\ UNCHANGED <<height, now, ops>>

\* code outside the ledger overwrites previousBlockHash of a stored block
TamperLink(k, v) ==
    /\ Len(tamperLog) < MaxTamper
    /\ k \in 1..Len(chain)
    /\ chain[k].previousBlockHash # v
    /\ chain' = [chain EXCEPT ![k].previousBlockHash = v]
    /\ tamperLog' =
          Append(tamperLog, [idx |-> k, field |-> "previousBlockHash"])
    /\ UNCHANGED <<height, now, ops>>

\* the messages callers submit: a challenge of the given age, or malformed
Messages(address) ==
    {ChallengeMessage(address, now - age) : age \in Ages}
      \cup {<<Txt(address)>>, <<Txt(address), Txt("soon"), Txt("starRegistry")>>}

Calls ==
    \/ \E p \in Procs : Append_(p, PlainData)
    \/ \E p \in Procs, a \in Addresses, signer \in Addresses, s \in Stars :
         \E m \in Messages(a) : submitStar(p, a, m, Sign(signer, m), s)
    \/ \E p \in Procs : validateChain(p)
    \/ \E p \in Procs, a \in Addresses : getStarsByWalletAddress(p, a)

Resumes ==
    \/ \E p \in AllProcs : ValidateLoopResume(p)
    \/ \E p \in AllProcs : ValidateLookupResume(p)
    \/ \E p \in AllProcs : ValidateGenesisResume(p)
    \/ \E p \in AllProcs : StarsResume(p)

Tamper ==
    \/ \E k \in 1..Len(chain) : TamperBody(k)
    \/ \E k \in 1..Len(chain) :
         \E v \in {BogusHash} \cup {chain[j].hash : j \in 1..Len(chain)} :
            TamperLink(k, v)

\* the ledger used through its operations only
Next == Calls \/ Resumes \/ Tick

Spec == Init /\ [][Next]_vars

\* the ledger with code outside it writing into stored blocks between the
\* calls; callers append, redeem fresh and correctly signed challenges, and
\* validate, each call started once the calls before it have run as far as
\* they ever get
Quiet == \A p \in AllProcs : ops[p].pc \in {"idle", "done", "hung"}

TamperCalls ==
    \/ \E p \in Procs : Quiet /\ Append_(p, PlainData)
    \/ \E p \in Procs, a \in {"a1"}, s \in Stars :
         \E m \in {ChallengeMessage(a, now)} :
            Quiet /\ submitStar(p, a, m, Sign(a, m), s)
    \/ \E p \in Procs : Quiet /\ validateChain(p)

TamperResumes ==
    \/ \E p \in AllProcs : ValidateLoopResume(p)
    \/ \E p \in AllProcs : ValidateLookupResume(p)
    \/ \E p \in AllProcs : ValidateGenesisResume(p)

NextTamper == TamperCalls \/ TamperResumes \/ (Quiet /\ Tamper)

SpecTamper == Init /\ [][NextTamper]_vars

\* the ledger with every operation callers have, pending together: appends
\* and redeems of fresh, correctly signed challenges next to the queries
QueryCalls ==
    \/ \E p \in Procs : Append_(p, PlainData)
    \/ \E p \in Procs, a \in {"a1"}, s \in Stars :
         \E m \in {ChallengeMessage(a, now)} :
            submitStar(p, a, m, Sign(a, m), s)
    \/ \E p \in Procs : validateChain(p)
    \/ \E p \in Procs, a \in {"a1"} : getStarsByWalletAddress(p, a)
    \/ \E p \in Procs : getChainHeight(p)
    \/ \E p \in Procs :
         \E h \in {BogusHash} \cup {chain[j].hash : j \in 1..Len(chain)} :
            GetBlockByHashCall(p, h)
    \/ \E p \in Procs, k \in -1..MaxOps : GetBlockByHeightCall(p, k)

NextQuery == QueryCalls \/ Resumes

SpecQuery == Init /\ [][NextQuery]_vars

\* the ownership protocol: challenges are issued, time passes, and messages
\* are redeemed, issued or not, once or several times
RedeemMessages(address) ==
    Messages(address)
      \cup {<<Txt(address), NumTxt(now, "x"), Txt("starRegistry")>>}
      \cup {ops[q].value.message :
              q \in {r \in Procs : ops[r].kind = "issue"
                                   /\ ops[r].address = address}}

RedeemCalls ==
    \/ \E p \in Procs, a \in Addresses :
         requestMessageOwnershipVerification(p, a)
    \/ \E p \in Procs, a \in Addresses, signer \in Addresses, s \in Stars :
         \E m \in RedeemMessages(a) : submitStar(p, a, m, Sign(signer, m), s)

NextRedeem == RedeemCalls \/ TamperResumes \/ Tick

SpecRedeem == Init /\ [][NextRedeem]_vars

(* ------------------------------ properties ----------------------------- *)
\* a call that gets as far as _addBlock: a direct append, or a redeem whose
\* message is at most 300 seconds old and whose signature the verifier accepts
Accepted(p) ==
    \/ ops[p].kind = "append"
    \/ /\ ops[p].kind = "redeem"
       /\ ~ops[p].elapsed.nan
       /\ ops[p].elapsed.n <= 300
       /\ ops[p].verified

InFlight(p) == ops[p].pc \notin {"idle", "done", "hung"}

HeightsInOrder == \A i \in 1..Len(chain) : chain[i].height = i - 1

\* C1: with N accepted append/redeem calls started on a fresh ledger, in any
\* interleaving, the chain has N+1 blocks with heights 0..N in index order,
\* no two blocks share a height, and every block above the genesis carries
\* the hash of the block just below it.
C1_ConcurrentAppendsLinked ==
    LET N == Cardinality({p \in Procs : Accepted(p)})
    IN /\ Len(chain) = N + 1
       /\ HeightsInOrder
       /\ \A i, j \in 1..Len(chain) :
             chain[i].height = chain[j].height => i = j
       /\ \A i \in 2..Len(chain) :
             chain[i].previousBlockHash = chain[i - 1].hash

\* every caller's operation is an accepted append or redeem, all of them are
\* pending at once, and both kinds take part
C1_Witness ==
    /\ \A p \in Procs : Accepted(p) /\ InFlight(p)
    /\ \E p, q \in Procs : ops[p].kind = "append" /\ ops[q].kind = "redeem"
    /\ Len(chain) = MaxOps + 1

\* C2: on a ledger nobody writes into from outside, every validation walk
\* has an empty error list and gets to its end, every validate() resolves
\* with the empty list, and no append is rejected.
C2_ValidChainNoErrors ==
    \A p \in AllProcs :
        /\ ops[p].errs = <<>>
        /\ ops[p].pc # "hung"
        /\ ops[p].abOutcome # "rejected"
        /\ ops[p].outcome = "rejected" => ops[p].value.tag = "text"
        /\ (ops[p].kind = "validate" /\ ops[p].pc = "done")
              => ops[p].outcome = "resolved" /\ ops[p].value = ListValue(<<>>)
        /\ (ops[p].kind \in {"init", "append"} /\ ops[p].pc = "done")
              => ops[p].outcome = "resolved"
                  /\ ops[p].value = BlockValue(ops[p].blk)

\* a validate() over at least three blocks has resolved, and an append and a
\* redeem have resolved after their own validation
C2_Witness ==
    /\ \E p \in Procs : /\ ops[p].kind = "validate"
                        /\ ops[p].pc = "done"
                        /\ ops[p].len0 >= 3
    /\ \E p \in Procs : ops[p].kind = "append" /\ ops[p].outcome = "resolved"
    /\ \E p \in Procs : ops[p].kind = "redeem" /\ ops[p].outcome = "resolved"

\* the tamper log holds exactly one entry, for the given field of a block
\* above the genesis, and validate() number p was called after it
OneTamperBefore(p, field) ==
    /\ Len(tamperLog) = 1
    /\ tamperLog[1].field = field
    /\ tamperLog[1].idx >= 2
    /\ ops[p].kind = "validate"
    /\ ops[p].tampers0 = 1
    /\ ops[p].pc \in {"done", "hung"}

\* C3 (as claimed): when only previousBlockHash of a block above the genesis
\* was changed, validate() returns a list that holds a linkage error.
C3_LinkageErrorReported ==
    \A p \in Procs :
        OneTamperBefore(p, "previousBlockHash")
          => /\ ops[p].outcome = "resolved"
             /\ \E k \in 1..Len(ops[p].errs) : ops[p].errs[k] = LinkageError

\* C4: when only the body of a block above the genesis was changed,
\* validate() returns a list with a self-hash error for that block, and every
\* block the list refers to is that block.
C4_BodyTamperReported ==
    \A p \in Procs :
        OneTamperBefore(p, "body")
          => /\ ops[p].outcome = "resolved"
             /\ ops[p].value = ListValue(ops[p].errs)
             /\ \E k \in 1..Len(ops[p].errs) :
                   ops[p].errs[k] = SelfHashError(tamperLog[1].idx)
             /\ \A k \in 1..Len(ops[p].errs) :
                   ops[p].errs[k].kind = "block"
                     => ops[p].errs[k].idx = tamperLog[1].idx

\* validate() has returned after the body of a block that is neither the
\* genesis nor the tip was changed
C4_Witness ==
    \E p \in Procs :
        /\ OneTamperBefore(p, "body")
        /\ ops[p].pc = "done"
        /\ tamperLog[1].idx < ops[p].len0

\* C5 (as claimed): when the append of a redeem is rejected with the
\* validation error, the redeem is rejected with that same error.
C5_AppendFailurePropagates ==
    \A p \in Procs :
        (ops[p].kind = "redeem" /\ ops[p].abOutcome = "rejected")
          => ops[p].outcome = "rejected" /\ ops[p].value = ops[p].abValue

\* C6: an append started when the height counter is h >= 0 puts one block at
\* the end of the chain, at index h+1; the block has height h+1 and the hash
\* of the block that was the tip as previousBlockHash; the counter is h+1.
C6_AppendStep ==
    \A p \in Procs :
        (ops[p].pc = "idle" /\ ops'[p].blk # 0 /\ height >= 0)
          => /\ Len(chain') = height + 2
             /\ SubSeq(chain', 1, Len(chain)) = chain
             /\ chain'[height + 2].height = height + 1
             /\ chain'[height + 2].previousBlockHash = chain[height + 1].hash
             /\ height' = height + 1
             /\ ops'[p].blk = height + 2

C6_SingleAppend == [][C6_AppendStep]_vars

\* an append that started on a chain of height 1 has put its block at index 2
C6_Witness ==
    \E p \in Procs :
        /\ ops[p].h0 = 1
        /\ ops[p].blk = 3
        /\ chain[3].previousBlockHash = chain[2].hash
        /\ chain[3].previousBlockHash # chain[1].hash

\* C7: wherever control can pass from one pending operation to another, the
\* height counter is the chain length minus one and the height field of the
\* last block, and the block at index i has height i.
C7_HeightInvariant ==
    /\ Len(chain) >= 1
    /\ height = Len(chain) - 1
    /\ height = chain[Len(chain)].height
    /\ HeightsInOrder

\* the chain holds a block for every caller while an append is still pending
C7_Witness ==
    /\ Len(chain) = MaxOps + 1
    /\ \E p \in Procs : InFlight(p) /\ ops[p].blk # 0

ExpiredText == TextValue("message timeout > 5min")
BadSignatureText == TextValue("message not verified")

C9_BadSignatureRejected ==
    \A p \in Procs :
        (/\ ops[p].kind = "redeem"
         /\ ~ops[p].elapsed.nan
         /\ ops[p].elapsed.n <= 300
         /\ ~ops[p].verified)
          => /\ ops[p].outcome = "rejected"
             /\ ops[p].value = BadSignatureText
             /\ ops[p].blk = 0

\* a message exactly 300 seconds old with a rejected signature was redeemed
C9_Witness ==
    \E p \in Procs :
        /\ ops[p].kind = "redeem"
        /\ ~ops[p].elapsed.nan
        /\ ops[p].elapsed.n = 300
        /\ ~ops[p].verified
        /\ ops[p].pc = "done"

\* the decoded bodies of the blocks 1..n that redeem calls of address a
\* appended, in chain order
RECURSIVE RedeemedBy(_, _)
RedeemedBy(a, n) ==
    IF n = 0 THEN <<>>
    ELSE IF \E q \in Procs : /\ ops[q].kind = "redeem"
                             /\ ops[q].address = a
                             /\ ops[q].blk = n
                             /\ ops[q].outcome \in {"pending", "resolved"}
         THEN Append(RedeemedBy(a, n - 1), Decode(chain[n].body))
         ELSE RedeemedBy(a, n - 1)

\* C10: starsByOwner(a) resolves with the bodies of the blocks that redeem
\* calls of address a appended, in chain order, over every block that was
\* in the chain when it was called; each entry has owner a, and the genesis
\* block adds no entry.
C10_StarsByOwner ==
    \A p \in Procs :
        (ops[p].kind = "stars" /\ ops[p].pc = "done")
          => /\ ops[p].outcome = "resolved"
             /\ ops[p].i - 1 >= ops[p].len0
             /\ ops[p].value = ListValue(RedeemedBy(ops[p].address, ops[p].i - 1))
             /\ \A k \in 1..Len(ops[p].value.list) :
                   /\ ops[p].value.list[k].owner = ops[p].address
                   /\ ops[p].value.list[k] # GenesisData

\* starsByOwner returned one star of its address from a chain that also
\* holds a star of another address
C10_Witness ==
    \E p, q \in Procs :
        /\ ops[p].kind = "stars" /\ ops[p].pc = "done"
        /\ Len(ops[p].value.list) = 1
        /\ ops[q].kind = "redeem" /\ ops[q].blk # 0
        /\ ops[q].address # ops[p].address
        /\ ops[q].blk < ops[p].i

\* C11: once the constructor has returned, index 0 of the chain holds the
\* genesis block (height 0, no previousBlockHash, body 'Genesis Block');
\* height() never answers -1, every block appended later has height >= 1,
\* and exactly one block carries the genesis body.
C11_GenesisSeeded ==
    /\ Len(chain) >= 1
    /\ height >= 0
    /\ chain[1].height = 0
    /\ chain[1].previousBlockHash = NullHash
    /\ Decode(chain[1].body) = GenesisData
    /\ Cardinality({i \in 1..Len(chain) :
                      Decode(chain[i].body) = GenesisData}) = 1
    /\ ops[0].kind = "init" /\ ops[0].blk = 1
    /\ \A p \in Procs :
          /\ ops[p].kind # "init"
          /\ ops[p].kind = "height" => ops[p].value.n >= 0
          /\ ops[p].blk # 0 => chain[ops[p].blk].height >= 1

\* while initializeChain is still pending, height() has answered 0 and an
\* append has got height 1
C11_Witness ==
    /\ ops[0].pc # "done"
    /\ \E p, q \in Procs :
          /\ ops[p].kind = "height" /\ ops[p].value = IntValue(0)
          /\ ops[q].kind = "append" /\ chain[ops[q].blk].height = 1

\* a step in which some caller starts an append or an accepted redeem
StartsAppend ==
    \E p \in Procs : ops[p].pc = "idle" /\ ops'[p].blk # 0

\* C12: in every step the old chain is a prefix of the new one with every
\* field of every block as it was, and at most one block is added; a step
\* of findByHash, findByHeight, starsByOwner, validate or height(), and a
\* redeem that is refused, leave the chain and the height counter alone.
C12_Step ==
    /\ Len(chain') \in {Len(chain), Len(chain) + 1}
    /\ SubSeq(chain', 1, Len(chain)) = chain
    /\ ~StartsAppend => (chain' = chain /\ height' = height)

C12_AppendOnly == [][C12_Step]_vars

\* a validation or a scan by owner has finished on a chain that grew while
\* it was pending
C12_Witness ==
    /\ Len(chain) >= 3
    /\ \E p \in Procs :
          /\ ops[p].kind \in {"validate", "stars"}
          /\ ops[p].pc = "done"
          /\ ops[p].len0 < Len(chain)

\* the first index up to n whose block has the given hash / height, 0 if none
FirstIndex(hits) ==
    IF hits = {} THEN 0 ELSE CHOOSE j \in hits : \A k \in hits : j <= k

\* C13: findByHash and findByHeight always resolve: with null when no block
\* of the chain has the key, else with the first block in chain order that
\* has it; findByHeight(k) with 0 <= k <= height() gives the block at
\* index k.
C13_Lookups ==
    \A p \in Procs :
        /\ ops[p].kind = "findByHash" =>
              /\ ops[p].outcome = "resolved"
              /\ ops[p].value =
                    FoundValue(FirstIndex({j \in 1..ops[p].len0 :
                                            chain[j].hash = ops[p].keyHash}))
        /\ ops[p].kind = "findByHeight" =>
              /\ ops[p].outcome = "resolved"
              /\ ops[p].value =
                    FoundValue(FirstIndex({j \in 1..ops[p].len0 :
                                            chain[j].height = ops[p].keyHeight}))
              /\ (0 <= ops[p].keyHeight /\ ops[p].keyHeight <= ops[p].h0)
                    => ops[p].value = BlockValue(ops[p].keyHeight + 1)

\* a lookup of a hash no block has answered null and a lookup of height 1
\* answered the block at index 1
C13_Witness ==
    \E p, r \in Procs :
        /\ ops[p].kind = "findByHash" /\ ops[p].value = NullValue
        /\ ops[r].kind = "findByHeight" /\ ops[r].keyHeight = 1
        /\ ops[r].value = BlockValue(2)

\* C14: every block in the chain has all its fields: a hash, computed over
\* the final values of the other fields, a time, its height, and above the
\* genesis a previousBlockHash; every block a query has answered with is
\* such a block.
C14_BlocksFinalised ==
    /\ \A i \in 1..Len(chain) :
          /\ chain[i].hash # NullHash
          /\ chain[i].hash =
                SHA256(Stringify([chain[i] EXCEPT !.hash = NullHash]))
          /\ chain[i].time \in T0..now
          /\ chain[i].height = i - 1
          /\ i > 1 => chain[i].previousBlockHash # NullHash
    /\ \A p \in Procs :
          ops[p].value.tag = "block" => ops[p].value.idx \in 1..Len(chain)

\* a query has answered with the block of an append that is still pending,
\* while a validation and a scan by owner are pending too
C14_Witness ==
    \E p, q \in Procs :
        /\ ops[p].kind \in {"findByHash", "findByHeight"}
        /\ ops[q].kind \in {"append", "redeem"}
        /\ InFlight(q)
        /\ ops[p].value = BlockValue(ops[q].blk)

\* C15 (as claimed): validate() never gets stuck and never goes round: no
\* validate() is left with a promise nobody settles, and no walk comes to
\* the same block twice.
C15_ValidateTerminates ==
    \A p \in Procs :
        ops[p].kind = "validate" =>
          /\ ops[p].pc # "hung"
          /\ \A i, j \in 1..Len(ops[p].visited) :
                ops[p].visited[i] = ops[p].visited[j] => i = j

\* C16: an append rejected after validation carries the non-empty error list
\* of that validation; its block stays where it was pushed and the height
\* counter stays advanced, so the next append takes the next height and
\* links to that block.
C16_FailedAppendStays ==
    \A p \in AllProcs :
        ops[p].abOutcome = "rejected" =>
          /\ Len(ops[p].errs) > 0
          /\ ops[p].abValue = InvalidError(ops[p].errs)
          /\ ops[p].kind \in {"init", "append"}
                => ops[p].outcome = "rejected"
                    /\ ops[p].value = ops[p].abValue
          /\ ops[p].blk \in 1..Len(chain)
          /\ chain[ops[p].blk].height = ops[p].h0 + 1
          /\ height >= ops[p].h0 + 1
          /\ \A q \in Procs :
                (ops[q].blk # 0 /\ ops[q].h0 = ops[p].h0 + 1)
                  => /\ ops[q].blk = ops[p].blk + 1
                     /\ ops[q].tip0 = chain[ops[p].blk].hash
                     /\ chain[ops[q].blk].height = ops[p].h0 + 2

\* an append was rejected after validation and a later append has taken the
\* next height
C16_Witness ==
    \E p, q \in Procs :
        /\ ops[p].kind = "append"
        /\ ops[p].outcome = "rejected"
        /\ ops[q].blk = ops[p].blk + 1
        /\ ops[q].pc = "done"

\* the walk of operation p has come to its end
WalkFinished(p) ==
    \/ ops[p].kind \in {"validate", "init", "append"} /\ ops[p].pc = "done"
    \/ ops[p].kind = "redeem" /\ ops[p].abOutcome \in {"resolved", "rejected"}

\* the blocks n, n-1, ..., 1
RECURSIVE Descending(_)
Descending(n) == IF n = 0 THEN <<>> ELSE <<n>> \o Descending(n - 1)

\* C19: while no previousBlockHash was changed, a walk goes from the tip
\* to the genesis block and comes to each block once; when only the body of
\* the genesis block was changed, validate() returns exactly the self-hash
\* error of the genesis block; the linkage test is never made for the block
\* at height 0.
C19_WalkAndGenesis ==
    \A p \in AllProcs :
        /\ (/\ WalkFinished(p)
            /\ \A k \in 1..Len(tamperLog) : tamperLog[k].field = "body")
              => ops[p].visited = Descending(ops[p].len0)
        /\ (/\ ops[p].kind = "validate"
            /\ ops[p].pc \in {"done", "hung"}
            /\ ops[p].tampers0 = 1
            /\ Len(tamperLog) = 1
            /\ tamperLog[1] = [idx |-> 1, field |-> "body"])
              => /\ ops[p].outcome = "resolved"
                 /\ ops[p].value = ListValue(<<SelfHashError(1)>>)
        /\ ops[p].snapshot # 0 => chain[ops[p].snapshot].height > 0

\* validate() has returned for a chain of three blocks after the body of
\* the genesis block was changed
C19_Witness ==
    \E p \in Procs :
        /\ ops[p].kind = "validate"
        /\ ops[p].pc = "done"
        /\ ops[p].tampers0 = 1
        /\ ops[p].len0 = 3
        /\ Len(tamperLog) = 1
        /\ tamperLog[1] = [idx |-> 1, field |-> "body"]

\* a redeem that must be refused: the timestamp did not parse, or more than
\* 300 seconds have passed since it, or the verifier says no
Refused(op) ==
    /\ op.kind = "redeem"
    /\ \/ op.elapsed.nan
       \/ op.elapsed.n > 300
       \/ ~op.verified

\* C17: the step of a redeem that is refused as expired or for its
\* signature changes neither the chain nor the height counter; the call is
\* rejected at once, no block is made and no validation is started.
C17_Step ==
    \A p \in Procs :
        (ops[p].pc = "idle" /\ Refused(ops'[p]))
          => /\ chain' = chain
             /\ height' = height
             /\ ops'[p].pc = "done"
             /\ ops'[p].outcome = "rejected"
             /\ ops'[p].value \in {ExpiredText, BadSignatureText}
             /\ ops'[p].blk = 0
             /\ ops'[p].visited = <<>>

C17_RefusedRedeemNoEffect == [][C17_Step]_vars

\* an expired redeem and a redeem with a bad signature were refused after a
\* block had been appended, and the chain still has that one block more
C17_Witness ==
    \E p, q, r \in Procs :
        /\ ops[p].blk = 2
        /\ p < q /\ p < r
        /\ ops[q].kind = "redeem" /\ ops[q].value = ExpiredText
        /\ ops[r].kind = "redeem" /\ ops[r].value = BadSignatureText
        /\ Len(chain) = 2

Issued == {ops[r].value.message : r \in {x \in Procs : ops[x].kind = "issue"}}

\* C20: a redeem appends a block exactly when its timestamp is at most 300
\* seconds old and the verifier accepts, whether or not the message was ever
\* issued and whatever was redeemed before; every accepted redeem, a repeated
\* one too, resolves with a block of its own, and these blocks are at
\* consecutive heights.
C20_Stateless ==
    /\ \A p \in Procs :
          ops[p].kind = "redeem" =>
            /\ ops[p].blk # 0 <=> (/\ ~ops[p].elapsed.nan
                                   /\ ops[p].elapsed.n <= 300
                                   /\ ops[p].verified)
            /\ ops[p].blk # 0 =>
                  /\ ops[p].outcome \in {"pending", "resolved"}
                  /\ ops[p].pc # "hung"
                  /\ ops[p].pc = "done"
                        => ops[p].value = BlockValue(ops[p].blk)
                  /\ chain[ops[p].blk].height = ops[p].blk - 1
                  /\ Decode(chain[ops[p].blk].body).owner = ops[p].address
            /\ \A q \in Procs \ {p} :
                  (ops[q].kind = "redeem" /\ ops[q].blk # 0)
                    => ops[q].blk # ops[p].blk
    /\ {ops[p].blk : p \in {x \in Procs : Accepted(x)}} = 2..Len(chain)

\* one message that was never issued has been redeemed twice with the same
\* signature, and both calls have resolved with blocks at heights 1 and 2
C20_Witness ==
    \E p, q \in Procs :
        /\ ops[p].kind = "redeem" /\ ops[q].kind = "redeem"
        /\ ops[p].outcome = "resolved" /\ ops[q].outcome = "resolved"
        /\ ops[p].blk = 2 /\ ops[q].blk = 3
        /\ chain[2].body = chain[3].body
        /\ Decode(chain[2].body).message \notin Issued
====
